---- MODULE Spec2Model ----
(***************************************************************************)
(* Model of src/model.py: the two LightningModules (ClassificationModel,   *)
(* SegmentationModel) with their per-batch step handlers and epoch-end     *)
(* hooks, and the UNETR decoder's forward pass on tensor shapes.           *)
(*                                                                         *)
(* Tensors are abstracted to what the handlers read from them:             *)
(*  - a classification sample is its probability (in percent) and label;   *)
(*  - a segmentation sample is the pixel counts of its thresholded         *)
(*    prediction (P), of its target mask (T), of their overlap (I), and    *)
(*    its label;                                                           *)
(*  - a decoder input is a shape (batch, channels, height, width).         *)
(* Scalars that are ratios are kept as reduced fractions <<num, den>>.     *)
(***************************************************************************)
EXTENDS Integers, Sequences, FiniteSets, TLC

VARIABLES
    model,                    \* which LightningModule this instance is: "cls" or "seg"
    val_metrics,              \* self.val_metrics  (MetricCollection state)
    test_metrics,             \* self.test_metrics (MetricCollection state)
    dice_score,               \* self.dice_score   (DiceScore state: per-sample <<numerator, denominator>>)
    validation_step_outputs,  \* self.validation_step_outputs (list of buffered batches)
    logged,                   \* what the last handler call emitted through self.log / self.log_dict
    decoder_in,               \* the list the last SegmentationModel step handed to UNETR.forward
    fed,                      \* history: samples passed to each phase's steps since that phase's last reduction
    cyc,                      \* driver of the two-epoch run (SpecCycle)
    shp                       \* configuration, pyramid and result of a UNETR forward pass (SpecShape)

vars == <<model, val_metrics, test_metrics, dice_score, validation_step_outputs,
          logged, decoder_in, fed, cyc, shp>>

----------------------------------------------------------------------------
(* Bounds of the model *)

\* largest number of samples the two phases together hold between reductions
MaxSamples == 2
\* largest number of samples in one training batch
MaxTrainBatch == 1
\* largest number of samples in the batch sequence of a two-epoch run
MaxCycleSamples == 3

----------------------------------------------------------------------------
(* Arithmetic helpers *)

Abs(x) == IF x < 0 THEN -x ELSE x

RECURSIVE GCD(_, _)
GCD(a, b) == IF b = 0 THEN a ELSE GCD(b, a % b)

\* the ratio n/d as a reduced fraction
Frac(n, d) == LET g == GCD(n, d) IN <<n \div g, d \div g>>

FracAdd(p, q) == Frac(p[1] * q[2] + q[1] * p[2], p[2] * q[2])

\* torchmetrics' _safe_divide: 0 where the denominator is 0
SafeDivide(n, d) == IF d = 0 THEN <<0, 1>> ELSE Frac(n, d)

\* the value NaN, and "no value emitted"
NaN == <<0, 0>>
NoValue == <<>>

RECURSIVE SumSeq(_)
SumSeq(s) == IF s = <<>> THEN 0 ELSE Head(s) + SumSeq(Tail(s))

----------------------------------------------------------------------------
(* MetricCollection of binary Accuracy/Recall/F1/Precision/Specificity/    *)
(* ConfusionMatrix: the stat-score counters and the 2x2 matrix.            *)

EmptyConfmat == [i \in 0..1 |-> [j \in 0..1 |-> 0]]

MetricCollection == [tp |-> 0, fp |-> 0, tn |-> 0, fn |-> 0, confmat |-> EmptyConfmat]

\* an update that stores the batch's counts over the running ones
MetricUpdate_Overwrites(mc, preds, target) ==
    LET n(t, p) == Cardinality({i \in DOMAIN preds : target[i] = t /\ preds[i] = p})
    IN  [tp |-> n(1, 1), fp |-> n(0, 1), tn |-> n(0, 0), fn |-> n(1, 0),
         confmat |-> [i \in 0..1 |-> [j \in 0..1 |-> n(i, j)]]]

\* MetricCollection.update(preds, target) on label tensors (sequences of 0/1)
MetricUpdate(mc, preds, target) ==
    LET n(t, p) == Cardinality({i \in DOMAIN preds : target[i] = t /\ preds[i] = p})
    IN  [tp |-> mc.tp + n(1, 1),
         fp |-> mc.fp + n(0, 1),
         tn |-> mc.tn + n(0, 0),
         fn |-> mc.fn + n(1, 0),
         confmat |-> [i \in 0..1 |-> [j \in 0..1 |-> mc.confmat[i][j] + n(i, j)]]]

\* MetricCollection.compute()
MetricCompute(mc) ==
    [accuracy    |-> SafeDivide(mc.tp + mc.tn, mc.tp + mc.tn + mc.fp + mc.fn),
     recall      |-> SafeDivide(mc.tp, mc.tp + mc.fn),
     f1          |-> SafeDivide(2 * mc.tp, 2 * mc.tp + mc.fp + mc.fn),
     precision   |-> SafeDivide(mc.tp, mc.tp + mc.fp),
     specificity |-> SafeDivide(mc.tn, mc.tn + mc.fp),
     confmat     |-> mc.confmat]

\* a reset that leaves the running statistics in place
MetricReset_Keeps(mc) == mc

\* MetricCollection.reset()
MetricReset(mc) == MetricCollection

\* results.pop("confmat"): the scalar metrics left for log_dict
ScalarMetrics(results) ==
    <<results.accuracy, results.recall, results.f1, results.precision, results.specificity>>

\* the double loop over i, j in range(2) emitting confmat[i, j]
ConfmatCells(confmat) == <<confmat[0][0], confmat[0][1], confmat[1][0], confmat[1][1]>>

\* torchmetrics' binary formatting of float predictions: preds > threshold (0.5)
Threshold(prob) == IF prob > 50 THEN 1 ELSE 0

Nothing == [op |-> "none", status |-> "ok", metrics |-> NoValue, cells |-> NoValue,
            dsc |-> NoValue, smp |-> NoValue]

Emit(op, status, metrics, cells, dsc, smp) ==
    [op |-> op, status |-> status, metrics |-> metrics, cells |-> cells,
     dsc |-> dsc, smp |-> smp]

----------------------------------------------------------------------------
(* ClassificationModel *)

\* a classification sample: sigmoid(logits) in percent, and batch["label"]
ClsSamples == [prob : {20, 50, 80}, label : {0, 1}]

ClsProbs(batch) == [i \in DOMAIN batch |-> Threshold(batch[i].prob)]

Labels(batch) == [i \in DOMAIN batch |-> batch[i].label]

ClassificationModel_training_step(batch) ==
    /\ logged' = Emit("training_step", "ok", NoValue, NoValue, NoValue, NoValue)
    /\ UNCHANGED <<val_metrics, test_metrics, dice_score, validation_step_outputs,
                   decoder_in, fed>>

ClassificationModel_validation_step(batch) ==
    /\ val_metrics' = MetricUpdate(val_metrics, ClsProbs(batch), Labels(batch))
    /\ fed' = [fed EXCEPT !.val = @ + Len(batch)]
    /\ logged' = Emit("validation_step", "ok", NoValue, NoValue, NoValue, NoValue)
    /\ UNCHANGED <<test_metrics, dice_score, validation_step_outputs, decoder_in>>

ClassificationModel_on_validation_epoch_end ==
    LET results == MetricCompute(val_metrics)
    IN  /\ val_metrics' = MetricReset(val_metrics)
        /\ fed' = [fed EXCEPT !.val = 0]
        /\ logged' = Emit("on_validation_epoch_end", "ok", ScalarMetrics(results),
                          ConfmatCells(results.confmat), NoValue, NoValue)
        /\ UNCHANGED <<test_metrics, dice_score, validation_step_outputs, decoder_in>>

ClassificationModel_test_step(batch) ==
    /\ test_metrics' = MetricUpdate(test_metrics, ClsProbs(batch), Labels(batch))
    /\ fed' = [fed EXCEPT !.test = @ + Len(batch)]
    /\ logged' = Emit("test_step", "ok", NoValue, NoValue, NoValue, NoValue)
    /\ UNCHANGED <<val_metrics, dice_score, validation_step_outputs, decoder_in>>

ClassificationModel_on_test_epoch_end ==
    LET results == MetricCompute(test_metrics)
    IN  /\ test_metrics' = MetricReset(test_metrics)
        /\ fed' = [fed EXCEPT !.test = 0]
        /\ logged' = Emit("on_test_epoch_end", "ok", ScalarMetrics(results),
                          ConfmatCells(results.confmat), NoValue, NoValue)
        /\ UNCHANGED <<val_metrics, dice_score, validation_step_outputs, decoder_in>>

----------------------------------------------------------------------------
(* SegmentationModel *)

pixel_treshold == 1000

\* a segmentation sample: P = pixels with sigmoid(logits) > 0.5, T = pixels of
\* the target mask, I = pixels in both, label = batch["label"]
SegSamples ==
    { [P |-> 1001, T |-> 1001, I |-> 1001, label |-> 1],
      [P |-> 1000, T |-> 1000, I |-> 0,    label |-> 1],
      [P |-> 1001, T |-> 1001, I |-> 0,    label |-> 0],
      [P |-> 2,    T |-> 2,    I |-> 1,    label |-> 0] }

\* batch["embs"]: an insertion-ordered mapping, as its (key, tensor) entries
Stages == <<"z3", "z6", "z9", "z12">>

Entry(k) == [k |-> k, v |-> "emb_" \o k]

\* the mapping built in the order z3, z6, z9, z12
CanonicalEmbs == [i \in DOMAIN Stages |-> Entry(Stages[i])]

\* the mappings holding the four stages in any insertion order, one more with
\* an additional key, one with a stage missing
EmbsChoices ==
    { [i \in 1..4 |-> Entry(Stages[f[i]])] :
          f \in {g \in [1..4 -> 1..4] : \A a, b \in 1..4 : a # b => g[a] # g[b]} }
    \cup { Append(CanonicalEmbs, Entry("cls")), SubSeq(CanonicalEmbs, 1, 3) }

Keys(embs) == {embs[i].k : i \in DOMAIN embs}

\* embs[key]
Lookup(embs, key) == embs[CHOOSE i \in DOMAIN embs : embs[i].k = key].v

\* embs.values()
Values(embs) == [i \in DOMAIN embs |-> embs[i].v]

\* [x, *[embs[i] for i in ["z3", "z6", "z9", "z12"]]]
TrainingPyramid(batch) ==
    <<"image">> \o [i \in DOMAIN Stages |-> Lookup(batch.embs, Stages[i])]

\* [x, *embs.values()]
EvalPyramid(batch) == <<"image">> \o Values(batch.embs)

\* z0, z3, z6, z9, z12 = x
Unpacks(x) == Len(x) = 5

\* the comparison with the threshold made inclusive
PredLabel_AtLeast(P) == IF P >= pixel_treshold THEN 1 ELSE 0

\* ((probs > 0.5).sum((2, 3)) > self.pixel_treshold).to(torch.int64)
PredLabel(P) == IF P > pixel_treshold THEN 1 ELSE 0

PredLabels(samples) == [i \in DOMAIN samples |-> PredLabel(samples[i].P)]

\* DiceScore.update(pred_mask, y): per sample, numerator 2*intersection and
\* denominator pred_sum + target_sum
DiceUpdate(ds, samples) ==
    ds \o [i \in DOMAIN samples |-> <<2 * samples[i].I, samples[i].P + samples[i].T>>]

RECURSIVE FracSum(_)
FracSum(s) == IF s = <<>> THEN <<0, 1>> ELSE FracAdd(Head(s), FracSum(Tail(s)))

\* DiceScore.compute(): the mean over samples of numerator / denominator,
\* samples of denominator 0 (NaN) left out
DiceCompute(ds) ==
    LET defined == SelectSeq(ds, LAMBDA e : e[2] # 0)
        total == FracSum([i \in DOMAIN defined |-> Frac(defined[i][1], defined[i][2])])
    IN  IF defined = <<>> THEN NaN
        ELSE Frac(total[1], total[2] * Len(defined))

\* torch.cat over the buffered batches
RECURSIVE Cat(_)
Cat(outs) == IF outs = <<>> THEN <<>> ELSE Head(outs) \o Cat(Tail(outs))

\* smp Fscore(activation='sigmoid') over all pixels of all samples:
\* (2 tp + eps) / (2 tp + fn + fp + eps), eps = 1e-7 (left out where the
\* denominator is not 0; it changes the value by less than 1e-7)
Fscore(samples) ==
    LET tp == SumSeq([i \in DOMAIN samples |-> samples[i].I])
        fp == SumSeq([i \in DOMAIN samples |-> samples[i].P - samples[i].I])
        fn == SumSeq([i \in DOMAIN samples |-> samples[i].T - samples[i].I])
    IN  IF 2 * tp + fn + fp = 0 THEN <<1, 1>> ELSE Frac(2 * tp, 2 * tp + fn + fp)

\* a training step that also feeds the Dice statistic
SegmentationModel_training_step_Accumulates(batch) ==
    /\ dice_score' = DiceUpdate(dice_score, batch.samples)
    /\ decoder_in' = TrainingPyramid(batch)
    /\ logged' = Emit("training_step", "ok", NoValue, NoValue, Fscore(batch.samples), NoValue)
    /\ UNCHANGED <<val_metrics, test_metrics, validation_step_outputs, fed>>

SegmentationModel_training_step(batch) ==
    /\ UNCHANGED <<val_metrics, test_metrics, dice_score, validation_step_outputs, fed>>
    /\ IF ~({"z3", "z6", "z9", "z12"} \subseteq Keys(batch.embs))
       THEN \* KeyError in the list comprehension
            /\ logged' = Emit("training_step", "error", NoValue, NoValue, NoValue, NoValue)
            /\ UNCHANGED decoder_in
       ELSE /\ decoder_in' = TrainingPyramid(batch)
            /\ logged' = Emit("training_step", "ok", NoValue, NoValue,
                              Fscore(batch.samples), NoValue)

SegmentationModel_validation_step(batch) ==
    /\ decoder_in' = EvalPyramid(batch)
    /\ IF ~Unpacks(EvalPyramid(batch))
       THEN \* ValueError in UNETR.forward's unpacking
            /\ logged' = Emit("validation_step", "error", NoValue, NoValue, NoValue, NoValue)
            /\ UNCHANGED <<val_metrics, test_metrics, dice_score,
                           validation_step_outputs, fed>>
       ELSE /\ val_metrics' = MetricUpdate(val_metrics, PredLabels(batch.samples),
                                           Labels(batch.samples))
            /\ dice_score' = DiceUpdate(dice_score, batch.samples)
            /\ validation_step_outputs' = Append(validation_step_outputs, batch.samples)
            /\ fed' = [fed EXCEPT !.val = @ + Len(batch.samples)]
            /\ logged' = Emit("validation_step", "ok", NoValue, NoValue, NoValue, NoValue)
            /\ UNCHANGED test_metrics

SegmentationModel_test_step(batch) ==
    /\ decoder_in' = EvalPyramid(batch)
    /\ IF ~Unpacks(EvalPyramid(batch))
       THEN /\ logged' = Emit("test_step", "error", NoValue, NoValue, NoValue, NoValue)
            /\ UNCHANGED <<val_metrics, test_metrics, dice_score,
                           validation_step_outputs, fed>>
       ELSE /\ test_metrics' = MetricUpdate(test_metrics, PredLabels(batch.samples),
                                            Labels(batch.samples))
            /\ dice_score' = DiceUpdate(dice_score, batch.samples)
            /\ validation_step_outputs' = Append(validation_step_outputs, batch.samples)
            /\ fed' = [fed EXCEPT !.test = @ + Len(batch.samples)]
            /\ logged' = Emit("test_step", "ok", NoValue, NoValue, NoValue, NoValue)
            /\ UNCHANGED val_metrics

\* The part of both epoch-end hooks after the metric collection was computed
\* and reset: dice_score.compute()/reset(), the scalar emissions, then the
\* F-score over the concatenated buffer.  DiceScore.compute() raises on a
\* statistic that was never updated (it concatenates its empty state lists),
\* before anything is emitted; torch.cat of an empty list raises.
EpochEndTail(op, results) ==
    IF dice_score = <<>>
    THEN /\ logged' = Emit(op, "error", NoValue, NoValue, NoValue, NoValue)
         /\ UNCHANGED <<dice_score, validation_step_outputs>>
    ELSE /\ dice_score' = <<>>
         /\ validation_step_outputs' = <<>>
         /\ logged' = IF validation_step_outputs = <<>>
                      THEN Emit(op, "error", ScalarMetrics(results),
                                ConfmatCells(results.confmat), DiceCompute(dice_score),
                                NoValue)
                      ELSE Emit(op, "ok", ScalarMetrics(results),
                                ConfmatCells(results.confmat), DiceCompute(dice_score),
                                Fscore(Cat(validation_step_outputs)))

SegmentationModel_on_validation_epoch_end ==
    /\ val_metrics' = MetricReset(val_metrics)
    /\ fed' = [fed EXCEPT !.val = 0]
    /\ EpochEndTail("on_validation_epoch_end", MetricCompute(val_metrics))
    /\ UNCHANGED <<test_metrics, decoder_in>>

SegmentationModel_on_test_epoch_end ==
    /\ test_metrics' = MetricReset(test_metrics)
    /\ fed' = [fed EXCEPT !.test = 0]
    /\ EpochEndTail("on_test_epoch_end", MetricCompute(test_metrics))
    /\ UNCHANGED <<val_metrics, decoder_in>>

----------------------------------------------------------------------------
(* The trainer loop as seen from one model instance: it may invoke any     *)
(* handler with any batch.                                                 *)

\* non-empty sequences of at most n elements of S
SeqsUpTo(S, n) == UNION {[1..k -> S] : k \in 1..n}

ClsBatches(n) == SeqsUpTo(ClsSamples, n)

SegBatches(E, n) == [embs : E, samples : SeqsUpTo(SegSamples, n)]

CycIdle == [ph |-> "none", script |-> <<>>, i |-> 0, run |-> 0, res |-> <<>>]

ShpIdle == [cfg |-> <<>>, pyr |-> <<>>, out |-> <<>>]

InitModel ==
    /\ val_metrics = MetricCollection
    /\ test_metrics = MetricCollection
    /\ dice_score = <<>>
    /\ validation_step_outputs = <<>>
    /\ logged = Nothing
    /\ decoder_in = <<>>
    /\ fed = [val |-> 0, test |-> 0]

Init ==
    /\ model \in {"cls", "seg"}
    /\ InitModel
    /\ cyc = CycIdle
    /\ shp = ShpIdle

ClsTrainingStep ==
    /\ model = "cls"
    /\ \E batch \in ClsBatches(MaxTrainBatch) : ClassificationModel_training_step(batch)
    /\ UNCHANGED <<model, cyc, shp>>

ClsValidationStep ==
    /\ model = "cls"
    /\ \E batch \in ClsBatches(MaxSamples) :
          /\ fed.val + fed.test + Len(batch) <= MaxSamples
          /\ ClassificationModel_validation_step(batch)
    /\ UNCHANGED <<model, cyc, shp>>

ClsValidationEpochEnd ==
    /\ model = "cls"
    /\ ClassificationModel_on_validation_epoch_end
    /\ UNCHANGED <<model, cyc, shp>>

ClsTestStep ==
    /\ model = "cls"
    /\ \E batch \in ClsBatches(MaxSamples) :
          /\ fed.val + fed.test + Len(batch) <= MaxSamples
          /\ ClassificationModel_test_step(batch)
    /\ UNCHANGED <<model, cyc, shp>>

ClsTestEpochEnd ==
    /\ model = "cls"
    /\ ClassificationModel_on_test_epoch_end
    /\ UNCHANGED <<model, cyc, shp>>

SegTrainingStep ==
    /\ model = "seg"
    /\ \E batch \in SegBatches({CanonicalEmbs}, MaxTrainBatch) :
          SegmentationModel_training_step(batch)
    /\ UNCHANGED <<model, cyc, shp>>

SegValidationStep ==
    /\ model = "seg"
    /\ \E batch \in SegBatches({CanonicalEmbs}, MaxSamples) :
          /\ fed.val + fed.test + Len(batch.samples) <= MaxSamples
          /\ SegmentationModel_validation_step(batch)
    /\ UNCHANGED <<model, cyc, shp>>

SegValidationEpochEnd ==
    /\ model = "seg"
    /\ SegmentationModel_on_validation_epoch_end
    /\ UNCHANGED <<model, cyc, shp>>

SegTestStep ==
    /\ model = "seg"
    /\ \E batch \in SegBatches({CanonicalEmbs}, MaxSamples) :
          /\ fed.val + fed.test + Len(batch.samples) <= MaxSamples
          /\ SegmentationModel_test_step(batch)
    /\ UNCHANGED <<model, cyc, shp>>

SegTestEpochEnd ==
    /\ model = "seg"
    /\ SegmentationModel_on_test_epoch_end
    /\ UNCHANGED <<model, cyc, shp>>

Next ==
    \/ ClsTrainingStep
    \/ ClsValidationStep
    \/ ClsValidationEpochEnd
    \/ ClsTestStep
    \/ ClsTestEpochEnd
    \/ SegTrainingStep
    \/ SegValidationStep
    \/ SegValidationEpochEnd
    \/ SegTestStep
    \/ SegTestEpochEnd

Spec == Init /\ [][Next]_vars

----------------------------------------------------------------------------
(* The SegmentationModel's steps on batches whose embs mapping was built   *)
(* in any order.                                                           *)

PyrBatches == SegBatches(EmbsChoices, 1)

InitPyr ==
    /\ model = "seg"
    /\ InitModel
    /\ cyc = CycIdle
    /\ shp = ShpIdle

PyrTrainingStep ==
    /\ \E batch \in PyrBatches : SegmentationModel_training_step(batch)
    /\ UNCHANGED <<model, cyc, shp>>

PyrValidationStep ==
    /\ \E batch \in PyrBatches :
          /\ fed.val + fed.test + Len(batch.samples) <= MaxSamples
          /\ SegmentationModel_validation_step(batch)
    /\ UNCHANGED <<model, cyc, shp>>

PyrTestStep ==
    /\ \E batch \in PyrBatches :
          /\ fed.val + fed.test + Len(batch.samples) <= MaxSamples
          /\ SegmentationModel_test_step(batch)
    /\ UNCHANGED <<model, cyc, shp>>

NextPyr == PyrTrainingStep \/ PyrValidationStep \/ PyrTestStep

SpecPyramid == InitPyr /\ [][NextPyr]_vars

----------------------------------------------------------------------------
(* One phase run for two epochs over the same batch sequence: the steps    *)
(* over the sequence, the phase's epoch-end hook, and the same again.      *)

\* the batch sequences of at most n samples of S in all
RECURSIVE Scripts(_, _)
Scripts(S, n) ==
    {<<>>} \cup UNION { { <<b>> \o rest : b \in [1..k -> S], rest \in Scripts(S, n - k) } :
                        k \in 1..n }

InitCycle ==
    /\ model \in {"cls", "seg"}
    /\ InitModel
    /\ shp = ShpIdle
    /\ \E ph \in {"val", "test"} :
       \E script \in Scripts(IF model = "cls" THEN ClsSamples ELSE SegSamples,
                               MaxCycleSamples) :
          cyc = [ph |-> ph, script |-> script, i |-> 0, run |-> 0, res |-> <<>>]

CycleStep ==
    /\ cyc.run < 2
    /\ cyc.i < Len(cyc.script)
    /\ LET batch == cyc.script[cyc.i + 1]
       IN  \/ model = "cls" /\ cyc.ph = "val" /\ ClassificationModel_validation_step(batch)
           \/ model = "cls" /\ cyc.ph = "test" /\ ClassificationModel_test_step(batch)
           \/ /\ model = "seg" /\ cyc.ph = "val"
              /\ SegmentationModel_validation_step([embs |-> CanonicalEmbs, samples |-> batch])
           \/ /\ model = "seg" /\ cyc.ph = "test"
              /\ SegmentationModel_test_step([embs |-> CanonicalEmbs, samples |-> batch])
    /\ cyc' = [cyc EXCEPT !.i = @ + 1]
    /\ UNCHANGED <<model, shp>>

CycleEpochEnd ==
    /\ cyc.run < 2
    /\ cyc.i = Len(cyc.script)
    /\ \/ model = "cls" /\ cyc.ph = "val" /\ ClassificationModel_on_validation_epoch_end
       \/ model = "cls" /\ cyc.ph = "test" /\ ClassificationModel_on_test_epoch_end
       \/ model = "seg" /\ cyc.ph = "val" /\ SegmentationModel_on_validation_epoch_end
       \/ model = "seg" /\ cyc.ph = "test" /\ SegmentationModel_on_test_epoch_end
    /\ cyc' = [cyc EXCEPT !.i = 0, !.run = @ + 1, !.res = Append(@, logged')]
    /\ UNCHANGED <<model, shp>>

NextCycle == CycleStep \/ CycleEpochEnd

SpecCycle == InitCycle /\ [][NextCycle]_vars

----------------------------------------------------------------------------
(* UNETR on tensor shapes.  A shape is (n, c, h, w); Bad is the result of  *)
(* an operation that raises, and of any operation applied to it.           *)

Shape(n, c, h, w) == [ok |-> TRUE, n |-> n, c |-> c, h |-> h, w |-> w]

Bad == [ok |-> FALSE, n |-> 0, c |-> 0, h |-> 0, w |-> 0]

\* nn.ConvTranspose2d(in_planes, out_planes, kernel_size, stride, padding, output_padding, groups)
ConvTranspose2d(in_planes, out_planes, kernel_size, stride, padding, output_padding, groups, x) ==
    IF x.ok /\ x.c = in_planes /\ in_planes % groups = 0 /\ out_planes % groups = 0
    THEN Shape(x.n, out_planes,
               (x.h - 1) * stride - 2 * padding + (kernel_size - 1) + output_padding + 1,
               (x.w - 1) * stride - 2 * padding + (kernel_size - 1) + output_padding + 1)
    ELSE Bad

\* nn.Conv2d(in_planes, out_planes, kernel_size, stride, padding, groups)
Conv2d(in_planes, out_planes, kernel_size, stride, padding, groups, x) ==
    IF x.ok /\ x.c = in_planes /\ in_planes % groups = 0 /\ out_planes % groups = 0
       /\ x.h + 2 * padding >= kernel_size /\ x.w + 2 * padding >= kernel_size
    THEN Shape(x.n, out_planes,
               (x.h + 2 * padding - (kernel_size - 1) - 1) \div stride + 1,
               (x.w + 2 * padding - (kernel_size - 1) - 1) \div stride + 1)
    ELSE Bad

\* nn.BatchNorm2d(planes)
BatchNorm2d(planes, x) == IF x.ok /\ x.c = planes THEN x ELSE Bad

\* nn.ReLU(True)
ReLU(x) == x

\* torch.cat([a, b], dim=1)
TorchCat(a, b) ==
    IF a.ok /\ b.ok /\ a.n = b.n /\ a.h = b.h /\ a.w = b.w
    THEN Shape(a.n, a.c + b.c, a.h, a.w)
    ELSE Bad

SingleDeconv2DBlock(in_planes, out_planes, groups, x) ==
    ConvTranspose2d(in_planes, out_planes, 2, 2, 0, 0, groups, x)

SingleConv2DBlock(in_planes, out_planes, kernel_size, groups, x) ==
    Conv2d(in_planes, out_planes, kernel_size, 1, (kernel_size - 1) \div 2, groups, x)

Conv2DBlock(in_planes, out_planes, kernel_size, x) ==
    LET a == SingleConv2DBlock(in_planes, in_planes, kernel_size, in_planes, x)
        b == ReLU(BatchNorm2d(in_planes, a))
        c == SingleConv2DBlock(in_planes, out_planes, 1, 1, b)
    IN  ReLU(BatchNorm2d(out_planes, c))

Deconv2DBlock(in_planes, out_planes, kernel_size, x) ==
    LET u == SingleDeconv2DBlock(in_planes, in_planes, in_planes, x)
        a == SingleConv2DBlock(in_planes, in_planes, kernel_size, in_planes, u)
        b == ReLU(BatchNorm2d(in_planes, a))
        c == SingleConv2DBlock(in_planes, out_planes, 1, 1, b)
    IN  ReLU(BatchNorm2d(out_planes, c))

SingleDWConv2DBlock(in_planes, out_planes, x) ==
    SingleConv2DBlock(in_planes, out_planes, 1, 1,
                      SingleDeconv2DBlock(in_planes, in_planes, in_planes, x))

\* the blocks UNETR.__init__ builds; cfg holds the constructor's arguments
decoder0(cfg, x) ==
    Conv2DBlock(cfg.init_filters, cfg.init_filters, 3,
                Conv2DBlock(cfg.input_dim, cfg.init_filters, 3, x))

decoder3(cfg, x) ==
    Deconv2DBlock(4 * cfg.init_filters, 2 * cfg.init_filters, 3,
        Deconv2DBlock(8 * cfg.init_filters, 4 * cfg.init_filters, 3,
            Deconv2DBlock(cfg.transformer_width, 8 * cfg.init_filters, 3, x)))

\* decoder6 with its second stage not upsampling
decoder6_one_upsampling(cfg, x) ==
    Conv2DBlock(8 * cfg.init_filters, 4 * cfg.init_filters, 3,
        Deconv2DBlock(cfg.transformer_width, 8 * cfg.init_filters, 3, x))

decoder6(cfg, x) ==
    Deconv2DBlock(8 * cfg.init_filters, 4 * cfg.init_filters, 3,
        Deconv2DBlock(cfg.transformer_width, 8 * cfg.init_filters, 3, x))

\* decoder9 projecting to 4*init_filters channels
decoder9_narrow(cfg, x) == Deconv2DBlock(cfg.transformer_width, 4 * cfg.init_filters, 3, x)

decoder9(cfg, x) == Deconv2DBlock(cfg.transformer_width, 8 * cfg.init_filters, 3, x)

decoder12_upsampler(cfg, x) ==
    SingleDWConv2DBlock(cfg.transformer_width, 8 * cfg.init_filters, x)

\* in_planes of the first block of decoder9_upsampler
decoder9_upsampler_in(cfg) == 16 * cfg.init_filters

decoder9_upsampler(cfg, x) ==
    SingleDWConv2DBlock(8 * cfg.init_filters, 4 * cfg.init_filters,
        Conv2DBlock(8 * cfg.init_filters, 8 * cfg.init_filters, 3,
            Conv2DBlock(8 * cfg.init_filters, 8 * cfg.init_filters, 3,
                Conv2DBlock(decoder9_upsampler_in(cfg), 8 * cfg.init_filters, 3, x))))

\* in_planes of the first block of decoder6_upsampler
decoder6_upsampler_in(cfg) == 8 * cfg.init_filters

decoder6_upsampler(cfg, x) ==
    SingleDWConv2DBlock(4 * cfg.init_filters, 2 * cfg.init_filters,
        Conv2DBlock(4 * cfg.init_filters, 4 * cfg.init_filters, 3,
            Conv2DBlock(decoder6_upsampler_in(cfg), 4 * cfg.init_filters, 3, x)))

\* in_planes of the first block of decoder3_upsampler
decoder3_upsampler_in(cfg) == 4 * cfg.init_filters

decoder3_upsampler(cfg, x) ==
    SingleDWConv2DBlock(2 * cfg.init_filters, cfg.init_filters,
        Conv2DBlock(2 * cfg.init_filters, 2 * cfg.init_filters, 3,
            Conv2DBlock(decoder3_upsampler_in(cfg), 2 * cfg.init_filters, 3, x)))

\* in_planes of the first block of decoder0_header
decoder0_header_in(cfg) == 2 * cfg.init_filters

decoder0_header(cfg, x) ==
    SingleConv2DBlock(cfg.init_filters, cfg.output_dim, 1, 1,
        Conv2DBlock(cfg.init_filters, cfg.init_filters, 3,
            Conv2DBlock(decoder0_header_in(cfg), cfg.init_filters, 3, x)))

\* UNETR.forward(x), x = <<z0, z3, z6, z9, z12>>: every intermediate tensor
UNETR_forward(cfg, x) ==
    LET z12u == decoder12_upsampler(cfg, x[5])
        z9d  == decoder9(cfg, x[4])
        cat9 == TorchCat(z9d, z12u)
        z9u  == decoder9_upsampler(cfg, cat9)
        z6d  == decoder6(cfg, x[3])
        cat6 == TorchCat(z6d, z9u)
        z6u  == decoder6_upsampler(cfg, cat6)
        z3d  == decoder3(cfg, x[2])
        cat3 == TorchCat(z3d, z6u)
        z3u  == decoder3_upsampler(cfg, cat3)
        z0d  == decoder0(cfg, x[1])
        cat0 == TorchCat(z0d, z3u)
    IN  [ran |-> TRUE,
         z12u |-> z12u, z9d |-> z9d, cat9 |-> cat9, z9u |-> z9u,
         z6d |-> z6d, cat6 |-> cat6, z6u |-> z6u,
         z3d |-> z3d, cat3 |-> cat3, z3u |-> z3u,
         z0d |-> z0d, cat0 |-> cat0,
         output |-> decoder0_header(cfg, cat0)]

NotRun ==
    [ran |-> FALSE,
     z12u |-> Bad, z9d |-> Bad, cat9 |-> Bad, z9u |-> Bad, z6d |-> Bad, cat6 |-> Bad,
     z6u |-> Bad, z3d |-> Bad, cat3 |-> Bad, z3u |-> Bad, z0d |-> Bad, cat0 |-> Bad,
     output |-> Bad]

\* largest side of the deep feature maps, besides the sides 16 and 32 of the examples
MaxSide == 2

Sides == (1..MaxSide) \cup {16, 32}

\* how many times larger than the deep feature maps z0 is
Factors == {8, 16}

Cfgs == [transformer_width : {1, 64}, output_dim : {1, 2}, input_dim : {1, 3},
         init_filters : {1, 8}]

\* the pyramid with deep maps of h x w and z0 of (k h) x (k w)
Pyramid(cfg, n, h, w, k) ==
    LET z == Shape(n, cfg.transformer_width, h, w)
    IN  <<Shape(n, cfg.input_dim, k * h, k * w), z, z, z, z>>

InitShape ==
    /\ model = "seg"
    /\ InitModel
    /\ cyc = CycIdle
    /\ \E cfg \in Cfgs, n \in 1..2, h \in Sides, w \in Sides, k \in Factors :
          shp = [cfg |-> cfg, pyr |-> Pyramid(cfg, n, h, w, k), out |-> NotRun]

Forward ==
    /\ ~shp.out.ran
    /\ shp' = [shp EXCEPT !.out = UNETR_forward(shp.cfg, shp.pyr)]
    /\ UNCHANGED <<model, val_metrics, test_metrics, dice_score, validation_step_outputs,
                   logged, decoder_in, fed, cyc>>

NextShape == Forward

SpecShape == InitShape /\ [][NextShape]_vars

----------------------------------------------------------------------------
(* Properties of UNETR.forward (SpecShape) *)

Z0IsTimes(k) ==
    /\ shp.pyr[1].h = k * shp.pyr[2].h
    /\ shp.pyr[1].w = k * shp.pyr[2].w

ForwardCompletes ==
    /\ shp.out.cat9.ok /\ shp.out.cat6.ok /\ shp.out.cat3.ok /\ shp.out.cat0.ok
    /\ shp.out.output = Shape(shp.pyr[1].n, shp.cfg.output_dim, shp.pyr[1].h, shp.pyr[1].w)

\* C1 as stated: with z3, z6, z9, z12 of spatial size S and z0 of spatial size
\* 8 x S, the forward pass completes and its output has z0's spatial size and
\* output_dim channels.
C1_ShapeInvariant_8S == (shp.out.ran /\ Z0IsTimes(8)) => ForwardCompletes

\* C1 amended: with z3, z6, z9, z12 of spatial size S and z0 of spatial size
\* 16 x S, every concatenation has operands of equal spatial size and the
\* output has z0's spatial size and output_dim channels.
C1_ShapeInvariant_16S == (shp.out.ran /\ Z0IsTimes(16)) => ForwardCompletes

\* z0 = (1, 3, 512, 512), z3..z12 = (1, 64, 32, 32), transformer_width 64,
\* init_filters 8, output_dim 2 gave the output (1, 2, 512, 512)
C1_Witness ==
    /\ shp.out.ran
    /\ shp.cfg = [transformer_width |-> 64, output_dim |-> 2, input_dim |-> 3,
                  init_filters |-> 8]
    /\ shp.pyr = <<Shape(1, 3, 512, 512), Shape(1, 64, 32, 32), Shape(1, 64, 32, 32),
                   Shape(1, 64, 32, 32), Shape(1, 64, 32, 32)>>
    /\ shp.out.output = Shape(1, 2, 512, 512)

\* C7: at each of the four concatenations of UNETR.forward the operands'
\* channel counts are 8f+8f, 4f+4f, 2f+2f and f+f (f = init_filters), and
\* the sum is the in_planes of the block that consumes the concatenation.
C7_ChannelInvariant ==
    shp.out.ran =>
        LET f == shp.cfg.init_filters
            o == shp.out
        IN  /\ o.z9d.ok /\ o.z12u.ok /\ o.z9d.c = 8 * f /\ o.z12u.c = 8 * f
            /\ o.z9d.c + o.z12u.c = 16 * f
            /\ o.z9d.c + o.z12u.c = decoder9_upsampler_in(shp.cfg)
            /\ o.z6d.ok /\ o.z9u.ok /\ o.z6d.c = 4 * f /\ o.z9u.c = 4 * f
            /\ o.z6d.c + o.z9u.c = 8 * f
            /\ o.z6d.c + o.z9u.c = decoder6_upsampler_in(shp.cfg)
            /\ o.z3d.ok /\ o.z6u.ok /\ o.z3d.c = 2 * f /\ o.z6u.c = 2 * f
            /\ o.z3d.c + o.z6u.c = 4 * f
            /\ o.z3d.c + o.z6u.c = decoder3_upsampler_in(shp.cfg)
            /\ o.z0d.ok /\ o.z3u.ok /\ o.z0d.c = f /\ o.z3u.c = f
            /\ o.z0d.c + o.z3u.c = 2 * f
            /\ o.z0d.c + o.z3u.c = decoder0_header_in(shp.cfg)

\* a forward pass with init_filters = 8 concatenated 64 + 64 channels for
\* decoder9_upsampler and 8 + 8 channels for decoder0_header
C7_Witness ==
    /\ shp.out.ran
    /\ shp.cfg.init_filters = 8
    /\ shp.out.cat9.ok /\ shp.out.cat9.c = 128
    /\ shp.out.cat0.ok /\ shp.out.cat0.c = 16

----------------------------------------------------------------------------
(* Properties of the handlers under any sequence of calls (Spec) *)

\* the confusion matrix m with the (label, derived label) pairs of the
\* samples of a step's batch (the batch the step buffered last) added, a sample's derived label being 1 when it has 1001 or more
\* foreground pixels and 0 when it has 1000 or fewer
WithStrictLabels(m, samples) ==
    [i \in 0..1 |-> [j \in 0..1 |->
        m[i][j] + Cardinality({k \in DOMAIN samples :
                                  /\ samples[k].label = i
                                  /\ IF j = 1 THEN samples[k].P >= 1001
                                              ELSE samples[k].P <= 1000})]]

\* C4: in SegmentationModel.validation_step and test_step the label fed to
\* the phase's metric collection is 1 exactly when the sample has more than
\* 1000 pixels of probability > 0.5 (1001 pixels give 1, 1000 give 0).
C4_ThresholdLabel ==
    [][/\ (model = "seg" /\ logged'.op = "validation_step" /\ logged'.status = "ok")
             => val_metrics'.confmat =
                   WithStrictLabels(val_metrics.confmat,
                                    validation_step_outputs'[Len(validation_step_outputs')])
       /\ (model = "seg" /\ logged'.op = "test_step" /\ logged'.status = "ok")
             => test_metrics'.confmat =
                   WithStrictLabels(test_metrics.confmat,
                                    validation_step_outputs'[Len(validation_step_outputs')])]_vars

\* a validation step took a batch holding a positive sample of 1001 foreground
\* pixels and a positive sample of 1000, and counted one as predicted
\* positive and the other as predicted negative
C4_Witness ==
    /\ model = "seg"
    /\ logged.op = "validation_step"
    /\ \E i \in DOMAIN validation_step_outputs :
          /\ \E k \in DOMAIN validation_step_outputs[i] :
                validation_step_outputs[i][k].P = 1001 /\ validation_step_outputs[i][k].label = 1
          /\ \E k \in DOMAIN validation_step_outputs[i] :
                validation_step_outputs[i][k].P = 1000 /\ validation_step_outputs[i][k].label = 1
    /\ val_metrics.confmat[1][1] = 1
    /\ val_metrics.confmat[1][0] = 1

ValidationEpochEnd == ClsValidationEpochEnd \/ SegValidationEpochEnd

TestEpochEnd == ClsTestEpochEnd \/ SegTestEpochEnd

\* C3: the four confusion-matrix cells an epoch-end hook emits sum to the
\* number of samples passed to that phase's steps since the phase's previous
\* reduction.
C3_ConfmatSum ==
    [][/\ (ValidationEpochEnd /\ logged'.cells # NoValue) => SumSeq(logged'.cells) = fed.val
       /\ (TestEpochEnd /\ logged'.cells # NoValue) => SumSeq(logged'.cells) = fed.test]_vars

\* a validation epoch end emitted the cells of two samples, one predicted
\* positive and one predicted negative
C3_Witness ==
    /\ logged.op = "on_validation_epoch_end"
    /\ logged.status = "ok"
    /\ Len(logged.cells) = 4
    /\ SumSeq(logged.cells) = 2
    /\ logged.cells[1] + logged.cells[3] = 1

\* C9: a training step of either model leaves both metric collections, the
\* Dice statistic and the validation_step_outputs buffer unchanged.
C9_TrainNeverAggregates ==
    [][(ClsTrainingStep \/ SegTrainingStep)
          => UNCHANGED <<val_metrics, test_metrics, dice_score, validation_step_outputs>>]_vars

\* a training step ran while a validation epoch was accumulating
C9_Witness ==
    /\ logged.op = "training_step"
    /\ logged.status = "ok"
    /\ val_metrics # MetricCollection
    /\ (model = "seg" => validation_step_outputs # <<>>)

\* C5: a validation_step changes no state that on_test_epoch_end reads or
\* resets, and a test_step changes no state that on_validation_epoch_end
\* reads or resets.
C5_PerPhaseAccumulator ==
    [][/\ SegValidationStep
             => UNCHANGED <<test_metrics, dice_score, validation_step_outputs>>
       /\ SegTestStep
             => UNCHANGED <<val_metrics, dice_score, validation_step_outputs>>]_vars

\* C6: an epoch-end hook invoked for a phase that accumulated no batch since
\* its last reset signals an error and emits no reduced metrics.
C6_EmptyEpochEndRaises ==
    [][/\ (ValidationEpochEnd /\ fed.val = 0)
             => (logged'.status = "error" /\ logged'.metrics = NoValue
                 /\ logged'.cells = NoValue)
       /\ (TestEpochEnd /\ fed.test = 0)
             => (logged'.status = "error" /\ logged'.metrics = NoValue
                 /\ logged'.cells = NoValue)]_vars

\* |p - q| <= 1e-4 for fractions p, q
WithinTolerance(p, q) == Abs(p[1] * q[2] - q[1] * p[2]) <= (p[2] * q[2]) \div 10000

\* C8: the F-score over the concatenated buffer (val_smp / test_smp) and the
\* Dice statistic reduced at the same epoch end (val_dsc / test_dsc) differ
\* by at most 1e-4.
C8_CrossCheck ==
    (/\ model = "seg"
     /\ logged.op \in {"on_validation_epoch_end", "on_test_epoch_end"}
     /\ logged.status = "ok")
        => WithinTolerance(logged.dsc, logged.smp)

----------------------------------------------------------------------------
(* Property of the SegmentationModel's steps (SpecPyramid) *)

\* C10: for every batch whose embs mapping holds z3, z6, z9 and z12, the
\* decoder receives (image, z3, z6, z9, z12) in training_step,
\* validation_step and test_step alike.
C10_PyramidOrder ==
    [][\A b \in PyrBatches :
         ({"z3", "z6", "z9", "z12"} \subseteq Keys(b.embs))
            => /\ SegmentationModel_training_step(b)
                     => decoder_in' = <<"image", Lookup(b.embs, "z3"), Lookup(b.embs, "z6"),
                                        Lookup(b.embs, "z9"), Lookup(b.embs, "z12")>>
               /\ SegmentationModel_validation_step(b)
                     => decoder_in' = <<"image", Lookup(b.embs, "z3"), Lookup(b.embs, "z6"),
                                        Lookup(b.embs, "z9"), Lookup(b.embs, "z12")>>
               /\ SegmentationModel_test_step(b)
                     => decoder_in' = <<"image", Lookup(b.embs, "z3"), Lookup(b.embs, "z6"),
                                        Lookup(b.embs, "z9"), Lookup(b.embs, "z12")>>]_vars

----------------------------------------------------------------------------
(* Property of two epochs over the same batch sequence (SpecCycle) *)

PhaseMetrics == IF cyc.ph = "val" THEN val_metrics ELSE test_metrics

\* C2: the two epochs emit identical reduced metrics, and right after each
\* epoch-end hook returns the phase's metric collection, the Dice statistic
\* and the validation_step_outputs buffer are in their initial empty state.
C2_Idempotence ==
    /\ (cyc.run = 2 /\ cyc.res[1].status = "ok") => cyc.res[2] = cyc.res[1]
    /\ (cyc.run >= 1 /\ cyc.i = 0 /\ cyc.res[cyc.run].status = "ok")
          => /\ PhaseMetrics = MetricCollection
             /\ dice_score = <<>>
             /\ validation_step_outputs = <<>>

\* both epochs of a SegmentationModel validation run over two batches ended,
\* each emitting the cells of the same two samples
C2_Witness ==
    /\ model = "seg"
    /\ cyc.ph = "val"
    /\ cyc.run = 2
    /\ Len(cyc.script) = 2
    /\ cyc.res[1].status = "ok"
    /\ cyc.res[2].status = "ok"
    /\ SumSeq(cyc.res[2].cells) = 2
    /\ cyc.res[2].smp # NoValue

====
